---- MODULE Spec2Model ----
(***************************************************************************)
(* Model of nifty50_intraday_movers.py: the module-level deduplication of  *)
(* the symbol list, fetch_data (one action per iteration of its loop) and  *)
(* print_top_movers.                                                       *)
(*                                                                         *)
(* Representation.                                                         *)
(*  - A Python str is a sequence of one-character strings, so that         *)
(*    concatenation, str.replace and lexicographic order are computed.     *)
(*  - A bar price is an integer number of thousandths (4 is 0.004).        *)
(*    round(x, 2) yields hundredths, round(pct, 4) yields ten-thousandths  *)
(*    of a percentage point; both round half to even on the exact value.   *)
(*  - A dict is the sequence of its items in insertion order (a Python     *)
(*    dict keeps insertion order, and DataFrame.from_dict(orient='index')  *)
(*    keeps it as the row order).                                          *)
(*  - A local of fetch_data is a sequence of length 0 (not assigned in     *)
(*    this iteration) or 1 (its value).  Every local is assigned before it *)
(*    is read in an iteration, so values left by the previous iteration    *)
(*    are dead and are not kept.                                           *)
(***************************************************************************)
EXTENDS Integers, Sequences, FiniteSets

VARIABLES NIFTY50, symbols, pc, i, results, stderr, frame,
          topn, df_sorted_pos, df_sorted_neg, stdout

vars == <<NIFTY50, symbols, pc, i, results, stderr, frame,
          topn, df_sorted_pos, df_sorted_neg, stdout>>

----------------------------------------------------------------------------
(* Bounds of the model *)

MaxSyms == 3
MaxBars == 2
MaxTopN == 2
MaxObs == 3

(* t.history(period="2d", interval="1d"): at most two daily bars *)
DailyPeriod == 2

----------------------------------------------------------------------------
(* Strings *)

(* str.replace(old, new) for a non-empty old: leftmost, non-overlapping *)
RECURSIVE Replace(_, _, _)
Replace(s, old, new) ==
    IF Len(s) < Len(old) THEN s
    ELSE IF SubSeq(s, 1, Len(old)) = old
         THEN new \o Replace(SubSeq(s, Len(old) + 1, Len(s)), old, new)
         ELSE <<s[1]>> \o Replace(Tail(s), old, new)

DotNS == <<".", "N", "S">>

SeqsUpTo(S, n) == UNION {[1..k -> S] : k \in 0..n}

Range(s) == {s[k] : k \in 1..Len(s)}

Min(a, b) == IF a <= b THEN a ELSE b

----------------------------------------------------------------------------
(* Symbol list and its deduplication *)

SourceNames == {<<"A">>, <<"B">>, <<"A", ".", "N", "S">>}

RECURSIVE DedupLoop(_, _, _)
DedupLoop(rest, seen, out) ==
    IF rest = <<>> THEN out
    ELSE LET s == Head(rest) IN
         IF s \notin seen
         THEN DedupLoop(Tail(rest), seen \cup {s}, Append(out, s \o DotNS))
         ELSE DedupLoop(Tail(rest), seen, out)

(* A plausible slip: the "if s not in seen" test is missing *)
DedupKeepsAll(list) == [k \in 1..Len(list) |-> list[k] \o DotNS]

Dedup(list) == DedupLoop(list, {}, <<>>)

----------------------------------------------------------------------------
(* Market data: what the provider answers for one symbol *)

Bars == { [Open |-> 4, Close |-> 6],
          [Open |-> 6, Close |-> 4],
          [Open |-> 0, Close |-> 6] }

(* The answer of one t.history(...) call: it raises, or returns bars in   *)
(* time order (possibly none).                                            *)
HistoryAnswers(n) ==
    {[raises |-> TRUE, bars |-> <<>>]}
        \cup {[raises |-> FALSE, bars |-> b] : b \in SeqsUpTo(Bars, n)}

(* Daily data that exists but is not asked for: its content cannot matter, *)
(* one non-empty representative stands for it.                             *)
UnaskedDaily == [raises |-> FALSE, bars |-> <<[Open |-> 6, Close |-> 4]>>]

UnaskedIntraday == [raises |-> FALSE, bars |-> <<[Open |-> 4, Close |-> 6]>>]

MarketAnswers ==
    {[ticker |-> "None", hist |-> UnaskedIntraday, dh |-> UnaskedDaily]}
        \cup {[ticker |-> "Ticker", hist |-> h, dh |-> UnaskedDaily] :
                 h \in {a \in HistoryAnswers(MaxBars) : a.raises \/ a.bars /= <<>>}}
        \cup {[ticker |-> "Ticker", hist |-> [raises |-> FALSE, bars |-> <<>>], dh |-> d] :
                 d \in HistoryAnswers(DailyPeriod)}

----------------------------------------------------------------------------
(* Arithmetic of lines 73-78 *)

(* num/den rounded to the nearest integer, halves to even; den > 0 *)
RoundHalfEven(num, den) ==
    LET q == num \div den
        r == num % den
    IN  IF 2 * r < den THEN q
        ELSE IF 2 * r > den THEN q + 1
        ELSE IF q % 2 = 0 THEN q ELSE q + 1

(* round(x, 2): thousandths to hundredths *)
Round2(x) == RoundHalfEven(x, 10)

(* A plausible slip: a zero open divides by one unit instead of yielding 0 *)
PctChangeZeroAsUnit(open_price, current_price) ==
    IF open_price /= 0
    THEN RoundHalfEven((current_price - open_price) * 1000000, open_price)
    ELSE (current_price - open_price) * 1000000

(* round((current_price - open_price) / open_price * 100 if open_price != 0 *)
(*       else 0.0, 4), in ten-thousandths of a percentage point             *)
PctChange(open_price, current_price) ==
    IF open_price /= 0
    THEN RoundHalfEven((current_price - open_price) * 1000000, open_price)
    ELSE 0

----------------------------------------------------------------------------
(* fetch_data: the body of one loop iteration *)

EmptyFrame ==
    [t |-> <<>>, hist |-> <<>>, dh |-> <<>>, open_price |-> <<>>,
     current_price |-> <<>>, source |-> <<>>]

Key(sym) == Replace(sym, DotNS, <<>>)

Keys(res) == {res[k].key : k \in 1..Len(res)}

(* results[key] = value: an existing key keeps its position *)
SetItem(res, key, value) ==
    IF key \in Keys(res)
    THEN [k \in 1..Len(res) |-> IF res[k].key = key THEN value ELSE res[k]]
    ELSE Append(res, value)

GetItem(res, key) == res[CHOOSE k \in 1..Len(res) : res[k].key = key]

Observation(sym, open_price, current_price, source) ==
    [key        |-> Key(sym),
     symbol     |-> Key(sym),
     price      |-> Round2(current_price),
     open       |-> Round2(open_price),
     pct_change |-> PctChange(open_price, current_price),
     source     |-> source]

LogLine(level, sym, text) == [level |-> level, sym |-> sym, text |-> text]

(* A plausible slip: the open is read from the last bar *)
IntradayOpenOfLast(hist) == hist[Len(hist)].Open

(* hist.iloc[0]['Open'], hist.iloc[-1]['Close'] *)
IntradayOpen(hist) == hist[1].Open

IntradayCurrent(hist) == hist[Len(hist)].Close

(* dh.iloc[-1] *)
DailyLast(dh) == dh[Len(dh)]

(* lines 73-80 *)
Store(fr, res, err, sym, open_price, current_price, source) ==
    [frame   |-> [fr EXCEPT !.open_price = <<open_price>>,
                            !.current_price = <<current_price>>,
                            !.source = <<source>>],
     results |-> SetItem(res, Key(sym),
                         Observation(sym, open_price, current_price, source)),
     stderr  |-> err]

(* A plausible slip: the handler gives up the batch, losing what was stored *)
SkipDropsBatch(fr, res, err, line) ==
    [frame |-> fr, results |-> <<>>, stderr |-> Append(err, line)]

(* a warning followed by continue (lines 51-52, 60-61), or the except     *)
(* clause (lines 81-82): a line on stderr, results untouched              *)
Skip(fr, res, err, line) ==
    [frame |-> fr, results |-> res, stderr |-> Append(err, line)]

(* "if hist.empty: ... else: ..." takes the else branch *)
UseIntraday(hist) == hist /= <<>>

FetchOne(sym, answer, res, err) ==
    LET f0 == [EmptyFrame EXCEPT !.t = <<answer.ticker>>] IN
    IF answer.ticker = "None"
    THEN Skip(f0, res, err, LogLine("WARN", sym, "ticker object not found"))
    ELSE IF answer.hist.raises
    THEN Skip(f0, res, err, LogLine("ERROR", sym, "exception"))
    ELSE
      LET hist == answer.hist.bars
          f1   == [f0 EXCEPT !.hist = <<hist>>]
      IN  IF UseIntraday(hist)
          THEN Store(f1, res, err, sym,
                     IntradayOpen(hist), IntradayCurrent(hist), "intraday")
          ELSE IF answer.dh.raises
          THEN Skip(f1, res, err, LogLine("ERROR", sym, "exception"))
          ELSE
            LET dh == answer.dh.bars
                f2 == [f1 EXCEPT !.dh = <<dh>>]
            IN  IF dh = <<>>
                THEN Skip(f2, res, err, LogLine("WARN", sym, "No history"))
                ELSE Store(f2, res, err, sym,
                           DailyLast(dh).Open, DailyLast(dh).Close,
                           "daily-close-fallback")

(* fetch_data as a whole: the loop run over every symbol, market[k] being *)
(* the provider's answer for symbols[k]                                   *)
RECURSIVE FetchLoop(_, _, _, _, _)
FetchLoop(syms, market, k, res, err) ==
    IF k > Len(syms) THEN [results |-> res, stderr |-> err]
    ELSE LET out == FetchOne(syms[k], market[k], res, err)
         IN  FetchLoop(syms, market, k + 1, out.results, out.stderr)

FetchData(syms, market) == FetchLoop(syms, market, 1, <<>>, <<>>)

----------------------------------------------------------------------------
(* print_top_movers *)

Perms(n) == {p \in [1..n -> 1..n] : \A a, b \in 1..n : p[a] = p[b] => a = b}

InOrder(x, y, ascending) == IF ascending THEN x <= y ELSE x >= y

(* A plausible slip: the ascending flag is ignored *)
SortValuesAscendingOnly(df, ascending) ==
    {s \in {[k \in 1..Len(df) |-> df[p[k]]] : p \in Perms(Len(df))} :
        \A a, b \in 1..Len(s) :
            a < b => s[a].pct_change <= s[b].pct_change}

(* df.sort_values("pct_change", ascending=...) with the default            *)
(* kind='quicksort', which is not stable: rows with equal pct_change come   *)
(* out in an order the build decides, so every sorted arrangement is a      *)
(* possible outcome.                                                        *)
SortValues(df, ascending) ==
    {s \in {[k \in 1..Len(df) |-> df[p[k]]] : p \in Perms(Len(df))} :
        \A a, b \in 1..Len(s) :
            a < b => InOrder(s[a].pct_change, s[b].pct_change, ascending)}

(* A plausible slip: one row too few *)
HeadOffByOne(df, n) == SubSeq(df, 1, Min(n, Len(df)) - 1)

(* df.head(n), n >= 0 *)
HeadRows(df, n) == SubSeq(df, 1, Min(n, Len(df)))

(* df[['symbol','price','pct_change']] *)
Table(df) ==
    [k \in 1..Len(df) |->
        [symbol |-> df[k].symbol, price |-> df[k].price,
         pct_change |-> df[k].pct_change]]

Printed(text, n, table) == [text |-> text, n |-> n, table |-> table]

NoData == Printed("No data fetched.", 0, <<>>)

(* A plausible slip: the emptiness test is missing *)
IsEmptyNever(df) == FALSE

(* df.empty *)
IsEmpty(df) == df = <<>>

----------------------------------------------------------------------------
(* The program *)

Init ==
    /\ NIFTY50 \in SeqsUpTo(SourceNames, MaxSyms)
    /\ symbols = <<>>
    /\ pc = "import"
    /\ i = 0
    /\ results = <<>>
    /\ stderr = <<>>
    /\ frame = EmptyFrame
    /\ topn = 0
    /\ df_sorted_pos = <<>>
    /\ df_sorted_neg = <<>>
    /\ stdout = <<>>

(* lines 30-36, run when the module is loaded *)
Import ==
    /\ pc = "import"
    /\ symbols' = Dedup(NIFTY50)
    /\ pc' = "main"
    /\ UNCHANGED <<NIFTY50, i, results, stderr, frame, topn,
                   df_sorted_pos, df_sorted_neg, stdout>>

(* lines 99-100 and 45-46: the banner, then fetch_data is entered *)
FetchCall ==
    /\ pc = "main"
    /\ stdout' = Append(stdout, Printed("Fetching data for symbols...", Len(symbols), <<>>))
    /\ results' = <<>>
    /\ i' = 0
    /\ pc' = "loop"
    /\ UNCHANGED <<NIFTY50, symbols, stderr, frame, topn,
                   df_sorted_pos, df_sorted_neg>>

(* lines 47-82: one iteration of "for sym in symbols" *)
FetchSymbol ==
    /\ pc = "loop"
    /\ i < Len(symbols)
    /\ \E answer \in MarketAnswers :
         LET out == FetchOne(symbols[i + 1], answer, results, stderr) IN
           /\ frame' = out.frame
           /\ results' = out.results
           /\ stderr' = out.stderr
    /\ i' = i + 1
    /\ UNCHANGED <<NIFTY50, symbols, pc, topn, df_sorted_pos, df_sorted_neg, stdout>>

(* line 83: the loop is exhausted, fetch_data returns and its locals die *)
FetchReturn ==
    /\ pc = "loop"
    /\ i = Len(symbols)
    /\ frame' = EmptyFrame
    /\ pc' = "print"
    /\ UNCHANGED <<NIFTY50, symbols, i, results, stderr, topn,
                   df_sorted_pos, df_sorted_neg, stdout>>

(* lines 85-96 *)
PrintTopMovers(n) ==
    /\ pc = "print"
    /\ topn' = n
    /\ pc' = "done"
    /\ IF IsEmpty(results)
       THEN /\ stdout' = Append(stdout, NoData)
            /\ UNCHANGED <<df_sorted_pos, df_sorted_neg>>
       ELSE \E pos \in SortValues(results, FALSE), neg \in SortValues(results, TRUE) :
              /\ df_sorted_pos' = HeadRows(pos, n)
              /\ df_sorted_neg' = HeadRows(neg, n)
              /\ stdout' = stdout \o
                    << Printed("Top Gainers:", n, Table(df_sorted_pos')),
                       Printed("Top Losers:", n, Table(df_sorted_neg')) >>
    /\ UNCHANGED <<NIFTY50, symbols, i, results, stderr, frame>>

Next ==
    \/ Import
    \/ FetchCall
    \/ FetchSymbol
    \/ FetchReturn
    \/ \E n \in 1..MaxTopN : PrintTopMovers(n)

Spec == Init /\ [][Next]_vars

----------------------------------------------------------------------------
(* The ranking alone: print_top_movers applied to what fetch_data returns *)
(* for a list of distinct symbols whose intraday bars all arrived.        *)

RankNames == {<<"A">>, <<"B">>, <<"C">>, <<"D">>}

RankLists ==
    {l \in SeqsUpTo(RankNames, MaxObs) :
        \A a, b \in 1..Len(l) : l[a] = l[b] => a = b}

RankAnswers ==
    {[ticker |-> "Ticker", hist |-> [raises |-> FALSE, bars |-> <<b>>],
      dh |-> UnaskedDaily] : b \in Bars}

InitRank ==
    \E list \in RankLists :
      \E market \in [1..Len(list) -> RankAnswers] :
        /\ NIFTY50 = list
        /\ symbols = Dedup(list)
        /\ pc = "print"
        /\ i = Len(list)
        /\ results = FetchData(Dedup(list), market).results
        /\ stderr = FetchData(Dedup(list), market).stderr
        /\ frame = EmptyFrame
        /\ topn = 0
        /\ df_sorted_pos = <<>>
        /\ df_sorted_neg = <<>>
        /\ stdout = <<Printed("Fetching data for symbols...", Len(list), <<>>)>>

NextRank == \E n \in 1..MaxTopN : PrintTopMovers(n)

SpecRank == InitRank /\ [][NextRank]_vars

----------------------------------------------------------------------------
(* Properties *)

Logged(sym) == \E k \in 1..Len(stderr) : stderr[k].sym = sym

Iterated == pc = "loop" /\ i > 0

Reported == pc = "done" /\ results /= <<>>

(* what the iteration just finished received from the provider *)
GotIntraday == frame.hist /= <<>> /\ frame.hist[1] /= <<>>

GotDaily == frame.dh /= <<>> /\ frame.dh[1] /= <<>>

Symbols(df) == {df[k].symbol : k \in 1..Len(df)}

Abs(x) == IF x < 0 THEN -x ELSE x

(* C1: whatever each symbol's retrieval does (no ticker, intraday bars,    *)
(* daily bars only, no bars, an exception), fetch_data visits every symbol *)
(* and returns; the returned mapping holds exactly the symbols that        *)
(* produced bars, each failed symbol has its line on stderr, and an        *)
(* iteration that fails leaves the mapping as it was, while one that       *)
(* stores touches no entry but its own.                                    *)
C1_Returned ==
    pc \in {"print", "done"} =>
        /\ i = Len(symbols)
        /\ Keys(results) =
              {Key(symbols[k]) : k \in {j \in 1..Len(symbols) : ~Logged(symbols[j])}}

C1_Iteration ==
    Iterated =>
        IF GotIntraday \/ GotDaily
        THEN Key(symbols[i]) \in Keys(results) /\ ~Logged(symbols[i])
        ELSE Logged(symbols[i]) /\ stderr[Len(stderr)].sym = symbols[i]

C1_Step ==
    i' = i + 1 =>
        /\ stderr' /= stderr => results' = results
        /\ \A k \in 1..Len(results) :
              results[k].key /= Key(symbols[i']) =>
                  k <= Len(results') /\ results'[k] = results[k]

C1_FailuresStayLocal == [](C1_Returned /\ C1_Iteration) /\ [][C1_Step]_vars

C1_Witness ==
    /\ pc = "print"
    /\ results /= <<>>
    /\ \E a, b \in 1..Len(stderr) :
          /\ stderr[a].level = "ERROR"
          /\ stderr[b].level = "WARN"
          /\ \E k \in 1..Len(symbols) : ~Logged(symbols[k]) /\ symbols[k] /= symbols[1]

(* C2: non-empty intraday bars give the first bar's Open, the last bar's   *)
(* Close and the intraday tag, and the daily bars are not asked for; the   *)
(* daily bars are asked for only after an empty intraday answer and give   *)
(* the Open and Close of their last bar and the fallback tag; two empty    *)
(* answers give no observation.                                            *)
C2_FallbackPolicy ==
    Iterated =>
        /\ GotIntraday =>
              LET hist == frame.hist[1] IN
                /\ frame.open_price = <<hist[1].Open>>
                /\ frame.current_price = <<hist[Len(hist)].Close>>
                /\ frame.source = <<"intraday">>
                /\ frame.dh = <<>>
                /\ GetItem(results, Key(symbols[i])).source = "intraday"
        /\ frame.dh /= <<>> => frame.hist = << <<>> >>
        /\ GotDaily =>
              LET dh == frame.dh[1] IN
                /\ frame.open_price = <<dh[Len(dh)].Open>>
                /\ frame.current_price = <<dh[Len(dh)].Close>>
                /\ frame.source = <<"daily-close-fallback">>
                /\ GetItem(results, Key(symbols[i])).source = "daily-close-fallback"
        /\ (frame.hist = << <<>> >> /\ frame.dh = << <<>> >>) =>
                /\ frame.open_price = <<>>
                /\ frame.source = <<>>
                /\ stderr[Len(stderr)] = LogLine("WARN", symbols[i], "No history")

C2_Witness ==
    /\ Iterated
    /\ GotIntraday
    /\ Len(frame.hist[1]) >= 2
    /\ frame.hist[1][1].Open /= frame.hist[1][Len(frame.hist[1])].Open
    /\ frame.hist[1][1].Close /= frame.hist[1][Len(frame.hist[1])].Close

(* C3: for a non-empty mapping and N >= 1 both lists hold exactly          *)
(* min(N, count) observations, printed row for row.                        *)
C3_ListLengths ==
    Reported =>
        /\ topn >= 1
        /\ Len(df_sorted_pos) = Min(topn, Len(results))
        /\ Len(df_sorted_neg) = Min(topn, Len(results))
        /\ Len(stdout[Len(stdout) - 1].table) = Min(topn, Len(results))
        /\ Len(stdout[Len(stdout)].table) = Min(topn, Len(results))

C3_Witness ==
    /\ Reported
    /\ topn > Len(results)
    /\ Symbols(df_sorted_pos) = Symbols(results)

(* C4: gainers are non-increasing and no observation left out of them has  *)
(* a strictly greater pct_change than one of them; losers are              *)
(* non-decreasing and none left out has a strictly smaller one.            *)
C4_Ranked ==
    Reported =>
        /\ Range(df_sorted_pos) \subseteq Range(results)
        /\ Range(df_sorted_neg) \subseteq Range(results)
        /\ \A a, b \in 1..Len(df_sorted_pos) :
              a < b => df_sorted_pos[a].pct_change >= df_sorted_pos[b].pct_change
        /\ \A a, b \in 1..Len(df_sorted_neg) :
              a < b => df_sorted_neg[a].pct_change <= df_sorted_neg[b].pct_change
        /\ \A r \in Range(results) \ Range(df_sorted_pos) :
              \A g \in Range(df_sorted_pos) : r.pct_change <= g.pct_change
        /\ \A r \in Range(results) \ Range(df_sorted_neg) :
              \A l \in Range(df_sorted_neg) : r.pct_change >= l.pct_change

C4_Witness ==
    /\ Reported
    /\ topn = 2
    /\ Len(results) > topn
    /\ df_sorted_pos[1].pct_change > df_sorted_pos[2].pct_change
    /\ df_sorted_neg[1].pct_change < df_sorted_neg[2].pct_change
    /\ results[1].pct_change < results[2].pct_change

(* lexicographic order of str, by code point *)
Ord(ch) ==
    CASE ch = "." -> 46
      [] ch = "A" -> 65
      [] ch = "B" -> 66
      [] ch = "C" -> 67
      [] ch = "D" -> 68
      [] ch = "N" -> 78
      [] ch = "S" -> 83

RECURSIVE StrLess(_, _)
StrLess(a, b) ==
    IF a = <<>> THEN b /= <<>>
    ELSE IF b = <<>> THEN FALSE
    ELSE IF a[1] = b[1] THEN StrLess(Tail(a), Tail(b))
    ELSE Ord(a[1]) < Ord(b[1])

(* C5: in both lists equal pct_change values are ordered by symbol         *)
(* ascending, and of the observations tied across the cut the smaller      *)
(* symbols are the ones kept.                                              *)
TiesBySymbol(list) ==
    /\ \A a, b \in 1..Len(list) :
          (a < b /\ list[a].pct_change = list[b].pct_change) =>
              StrLess(list[a].symbol, list[b].symbol)
    /\ \A r \in Range(results) \ Range(list) :
          \A kept \in Range(list) :
              kept.pct_change = r.pct_change => StrLess(kept.symbol, r.symbol)

C5_TiesBySymbol == Reported => TiesBySymbol(df_sorted_pos) /\ TiesBySymbol(df_sorted_neg)

(* C6: recomputing (price - open) / open * 100 (0 when open is 0) from the *)
(* stored, rounded open and price gives the stored pct_change within 0.01  *)
(* of a percentage point.                                                  *)
C6_RoundTrip ==
    \A r \in Range(results) :
        IF r.open = 0
        THEN Abs(r.pct_change) <= 100
        ELSE Abs((r.price - r.open) * 1000000 - r.pct_change * r.open) <= 100 * r.open

(* C7 as stated: with more than 2N observations no symbol is in both lists *)
C7_Disjoint ==
    (Reported /\ Len(results) > 2 * topn) =>
        Symbols(df_sorted_pos) \cap Symbols(df_sorted_neg) = {}

TiedWith(r) == {k \in 1..Len(results) : results[k].pct_change = r.pct_change}

(* C7 as amended: with more than 2N observations a symbol is in both lists *)
(* only if its pct_change is shared by at least count - 2N + 2 of them,    *)
(* so never when the values are pairwise distinct.                         *)
C7_OverlapOnlyAmongTies ==
    (Reported /\ Len(results) > 2 * topn) =>
        \A r \in Range(df_sorted_pos) \cap Range(df_sorted_neg) :
            Cardinality(TiedWith(r)) >= Len(results) - 2 * topn + 2

C7_Witness ==
    /\ Reported
    /\ Len(results) > 2 * topn
    /\ Symbols(df_sorted_pos) \cap Symbols(df_sorted_neg) /= {}

(* C8: a selected bar whose Open is 0 gives a stored observation with      *)
(* pct_change 0 whatever the current price, and no error line.             *)
SelectedBar ==
    IF GotIntraday
    THEN [Open  |-> frame.hist[1][1].Open,
          Close |-> frame.hist[1][Len(frame.hist[1])].Close]
    ELSE frame.dh[1][Len(frame.dh[1])]

C8_ZeroOpen ==
    (Iterated /\ (GotIntraday \/ GotDaily) /\ SelectedBar.Open = 0) =>
        /\ Key(symbols[i]) \in Keys(results)
        /\ GetItem(results, Key(symbols[i])).pct_change = 0
        /\ GetItem(results, Key(symbols[i])).price = Round2(SelectedBar.Close)
        /\ ~Logged(symbols[i])

C8_Witness ==
    /\ Iterated
    /\ GotIntraday
    /\ SelectedBar.Open = 0
    /\ SelectedBar.Close = 4
    /\ GetItem(results, Key(symbols[i])).pct_change = 0

(* C9: an empty mapping prints the no-data line and no list, a non-empty   *)
(* one prints both lists and no no-data line.                              *)
Sections == {stdout[k].text : k \in 1..Len(stdout)}

C9_NoData ==
    pc = "done" =>
        /\ results = <<>> =>
              /\ stdout[Len(stdout)] = NoData
              /\ Sections \cap {"Top Gainers:", "Top Losers:"} = {}
              /\ df_sorted_pos = <<>> /\ df_sorted_neg = <<>>
        /\ results /= <<>> =>
              /\ "No data fetched." \notin Sections
              /\ {"Top Gainers:", "Top Losers:"} \subseteq Sections
              /\ df_sorted_pos /= <<>> /\ df_sorted_neg /= <<>>

C9_Witness ==
    /\ pc = "done"
    /\ results = <<>>
    /\ Len(symbols) >= 2
    /\ stdout[Len(stdout)] = NoData

(* C10: the deduplication keeps each identifier once, in first-occurrence  *)
(* order; the mapping and both lists hold each symbol at most once, and    *)
(* each observation's symbol is its key.                                   *)
FirstIndex(list, x) == CHOOSE k \in 1..Len(list) : list[k] = x /\ \A j \in 1..(k - 1) : list[j] /= x

NoRepeat(list) == \A a, b \in 1..Len(list) : list[a].symbol = list[b].symbol => a = b

C10_Unique ==
    /\ pc /= "import" =>
          /\ Range(symbols) = {s \o DotNS : s \in Range(NIFTY50)}
          /\ \A a, b \in 1..Len(symbols) : symbols[a] = symbols[b] => a = b
          /\ \A a, b \in 1..Len(symbols) :
                a < b =>
                    FirstIndex(NIFTY50, SubSeq(symbols[a], 1, Len(symbols[a]) - 3))
                        < FirstIndex(NIFTY50, SubSeq(symbols[b], 1, Len(symbols[b]) - 3))
    /\ \A a, b \in 1..Len(results) : results[a].key = results[b].key => a = b
    /\ \A k \in 1..Len(results) : results[k].symbol = results[k].key
    /\ NoRepeat(results) /\ NoRepeat(df_sorted_pos) /\ NoRepeat(df_sorted_neg)

C10_Witness ==
    /\ pc = "done"
    /\ Len(symbols) < Len(NIFTY50)
    /\ Len(results) = 2
    /\ Len(df_sorted_pos) = 2

====
